---- MODULE Spec2Model ----
(***************************************************************************)
(* SEP-10 client helpers of src/helpers/sep10.ts: getChallenge and        *)
(* postChallenge, run against an arbitrary remote WEB_AUTH_ENDPOINT.       *)
(*                                                                         *)
(* One run of one of the two operations on a fresh Result is modelled.    *)
(* The async functions suspend at their awaits; every action is the code  *)
(* that runs between two awaits.  The remote endpoint's answers (and the  *)
(* transport's failures) are the inputs of the actions that resume a      *)
(* suspended fetch.                                                        *)
(***************************************************************************)
EXTENDS Integers, Sequences, FiniteSets, TLC

(***************************************************************************)
(* Bounds of the model.                                                    *)
(***************************************************************************)
\* statuses besides 200, 201 and 404 the endpoint may answer with: 500 ..
ExtraStatuses == 1
\* largest sequence number of a challenge transaction the endpoint sends
MaxSequence == 2

(***************************************************************************)
(* JavaScript values.  An optional value is a sequence of length <= 1:    *)
(* <<>> is undefined/null/absent, <<v>> is v.                              *)
(***************************************************************************)
None == <<>>
Some(v) == <<v>>
IsSome(o) == o # <<>>
The(o) == o[1]

\* a value stored into result.expected / result.actual: a number or a string
JsNum(n) == [t |-> "number", n |-> n, s |-> ""]
JsStr(s) == [t |-> "string", n |-> 0, s |-> s]

\* !x for an optional string: undefined, null and "" are falsy
FalsyStr(o) == o = None \/ o = Some("")

(***************************************************************************)
(* The universe of inputs.                                                 *)
(***************************************************************************)
\* strings Keypair.fromPublicKey accepts (well-formed ed25519 public keys)
ValidPublicKeys == {"GA", "GB"}
ServerKey == "GSERVER"
Endpoint == "https://x/auth"
Passphrase == "Test SDF Network ; September 2015"

Statuses == {200, 201, 404} \cup (500 .. (500 + ExtraStatuses - 1))
ContentTypes == {None, Some(""), Some("application/json"), Some("text/html")}
SequenceNumbers == 0 .. MaxSequence

\* the service metadata handed in by the caller
TomlObjects ==
  {None} \cup
  {Some([WEB_AUTH_ENDPOINT |-> e, NETWORK_PASSPHRASE |-> Some(Passphrase)]) :
     e \in {None, Some(""), Some(Endpoint)}}

\* the value of the `transaction` attribute of a GET response body: a string
\* that is empty, is no transaction envelope, or is the envelope of an
\* ordinary or of a fee-bump transaction
NoSigs == <<>>
WireStrings ==
  {[wire |-> "empty", seq |-> 0, sigs |-> NoSigs],
   [wire |-> "garbage", seq |-> 0, sigs |-> NoSigs]} \cup
  {[wire |-> w, seq |-> n, sigs |-> <<ServerKey>>] :
     w \in {"tx", "feebump"}, n \in SequenceNumbers}

\* the `sub` of a token payload: missing, not a string, or a string
SubValues ==
  {[t |-> "undefined", s |-> ""], [t |-> "number", s |-> ""]} \cup
  {[t |-> "string", s |-> k] : k \in ValidPublicKeys \cup {"malformed"}}

NoPayload == [sub |-> [t |-> "undefined", s |-> ""], iat |-> FALSE, exp |-> FALSE]
\* iat / exp: TRUE when the attribute is present and a number
Payloads == [sub : SubValues, iat : BOOLEAN, exp : BOOLEAN]

\* the value of the `token` attribute of a POST response body
TokenStrings ==
  {[jws |-> j, payload |-> NoPayload] :
     j \in {"empty", "malformed", "badpayload", "primitive"}} \cup
  {[jws |-> "object", payload |-> p] : p \in Payloads}

NoBody == [json |-> "invalid", transaction |-> None, token |-> None]
\* response bodies: not JSON, JSON null, a JSON primitive, or a JSON object
GetBodies ==
  {[json |-> j, transaction |-> None, token |-> None] :
     j \in {"invalid", "null", "primitive", "object"}} \cup
  {[json |-> "object", transaction |-> Some(w), token |-> None] : w \in WireStrings}
PostBodies ==
  {[json |-> j, transaction |-> None, token |-> None] :
     j \in {"invalid", "null", "primitive", "object"}} \cup
  {[json |-> "object", transaction |-> None, token |-> Some(t)] : t \in TokenStrings}

GetResponses == [status : Statuses, contentType : ContentTypes, body : GetBodies]
PostResponses == [status : Statuses, contentType : ContentTypes, body : PostBodies]

(***************************************************************************)
(* Failure catalogs.  `id` is the identity of the object literal: where   *)
(* in the source the Failure object is created.                            *)
(***************************************************************************)
getChallengeFailureModes ==
  [NO_TOML |-> [id |-> "get.NO_TOML", name |-> "no TOML file"],
   NO_WEB_AUTH_ENDPOINT |->
     [id |-> "get.NO_WEB_AUTH_ENDPOINT", name |-> "no WEB_AUTH_ENDPOINT"],
   CONNECTION_ERROR |-> [id |-> "get.CONNECTION_ERROR", name |-> "connection error"],
   UNEXPECTED_STATUS_CODE |->
     [id |-> "get.UNEXPECTED_STATUS_CODE", name |-> "unexpected status code"],
   BAD_CONTENT_TYPE |-> [id |-> "get.BAD_CONTENT_TYPE", name |-> "bad content type"],
   NO_TRANSACTION |->
     [id |-> "get.NO_TRANSACTION", name |-> "missing 'transaction' field"],
   DESERIALIZATION_FAILED |->
     [id |-> "get.DESERIALIZATION_FAILED",
      name |-> "transaction deserialization failed"],
   INVALID_TRANSACTION_TYPE |->
     [id |-> "get.INVALID_TRANSACTION_TYPE", name |-> "invalid transaction type"],
   NONZERO_SEQUENCE_NUMBER |->
     [id |-> "get.NONZERO_SEQUENCE_NUMBER", name |-> "non-zero sequence number"]]

\* the entries postChallengeFailureModes lists itself (lines 91-126)
postOwnFailureModes ==
  [NO_TOKEN |-> [id |-> "post.NO_TOKEN", name |-> "no token"],
   JWT_DECODE_FAILURE |-> [id |-> "post.JWT_DECODE_FAILURE", name |-> "JWT decode failure"],
   JWT_NOT_JSON |-> [id |-> "post.JWT_NOT_JSON", name |-> "JWT contents is not JSON"],
   INVALID_JWT_SCHEMA |->
     [id |-> "post.INVALID_JWT_SCHEMA", name |-> "invalid JWT content schema"],
   INVALID_JWT_SUB |-> [id |-> "post.INVALID_JWT_SUB", name |-> "invalid jwt 'sub' attribute"]]

\* Spread giving the copy its own instances of the entries of b
SpreadCloned(a, b) ==
  [k \in DOMAIN a \cup DOMAIN b |->
     IF k \in DOMAIN b THEN [b[k] EXCEPT !.id = "post." \o k] ELSE a[k]]

\* { ...a, ...b }: the properties of a, then those of b, the later winning;
\* the values are copied by reference
Spread(a, b) ==
  [k \in DOMAIN a \cup DOMAIN b |-> IF k \in DOMAIN b THEN b[k] ELSE a[k]]

postChallengeFailureModes == Spread(postOwnFailureModes, getChallengeFailureModes)

NoArgs == [argc |-> 0]
\* a materialized failure: the Failure definition with the arguments of the
\* failure site
makeFailure(mode, args) == [name |-> mode.name, mode |-> mode.id, args |-> args]

(***************************************************************************)
(* Library collaborators, by what the code relies on.                      *)
(***************************************************************************)
\* TransactionBuilder.fromXDR: throws on a string that is no envelope,
\* otherwise builds a Transaction or a FeeBumpTransaction
fromXDR(w, networkPassphrase) ==
  IF w.wire \in {"tx", "feebump"}
  THEN [ok |-> TRUE,
        tx |-> [type |-> IF w.wire = "tx" THEN "Transaction" ELSE "FeeBumpTransaction",
                sequence |-> w.seq, signatures |-> w.sigs]]
  ELSE [ok |-> FALSE, tx |-> [type |-> "none", sequence |-> 0, signatures |-> NoSigs]]

\* challenge.toXDR(): the envelope of the transaction, signatures included
toXDR(tx) ==
  [wire |-> IF tx.type = "Transaction" THEN "tx" ELSE "feebump",
   seq |-> tx.sequence, sigs |-> tx.signatures]

\* sign adding the signature twice
signTwice(tx, keypair) == [tx EXCEPT !.signatures = Append(Append(@, keypair), keypair)]

\* challenge.sign(keypair): adds the keypair's signature, in place
sign(tx, keypair) == [tx EXCEPT !.signatures = Append(@, keypair)]

\* jsonwebtoken's decode: throws, or returns null, a string or an object
decode(t) ==
  CASE t.jws = "badpayload" -> [outcome |-> "throw", payload |-> NoPayload]
    [] t.jws = "malformed" -> [outcome |-> "null", payload |-> NoPayload]
    [] t.jws = "primitive" -> [outcome |-> "string", payload |-> NoPayload]
    [] OTHER -> [outcome |-> "object", payload |-> t.payload]

\* validate(jwtContents, jwtSchema).errors: one message per violation
validate(p) ==
  (IF p.sub.t = "undefined" THEN <<"requires property \"sub\"">>
   ELSE IF p.sub.t # "string" THEN <<"sub is not of a type(s) string">>
   ELSE <<>>)
  \o (IF p.iat THEN <<>> ELSE <<"iat is not of a type(s) number">>)
  \o (IF p.exp THEN <<>> ELSE <<"exp is not of a type(s) number">>)

\* Keypair.fromPublicKey(sub) returns (TRUE) or throws (FALSE)
fromPublicKey(sub) == sub.t = "string" /\ sub.s \in ValidPublicKeys

(***************************************************************************)
(* The frame of a running call: the Result it writes, the history of the  *)
(* assignments to result.failure, the requests handed to fetch, where the *)
(* call stands and what it returned.                                       *)
(***************************************************************************)
FreshResult ==
  [networkCalls |-> <<>>, failure |-> None, expected |-> None, actual |-> None]

Return(f, v) == [f EXCEPT !.pc = "returned", !.ret = v]
Throw(f) == [f EXCEPT !.pc = "thrown"]
SetFailure(f, failure) ==
  [f EXCEPT !.result.failure = Some(failure), !.log = Append(@, failure.name)]
SetExpected(f, v) == [f EXCEPT !.result.expected = Some(v)]
SetActual(f, v) == [f EXCEPT !.result.actual = Some(v)]
\* PushCall putting the call in front (unshift for push)
PushCallFront(f, request) ==
  [f EXCEPT !.result.networkCalls =
     <<[request |-> request, response |-> None]>> \o @]

\* result.networkCalls.push({ request })
PushCall(f, request) ==
  [f EXCEPT !.result.networkCalls = Append(@, [request |-> request, response |-> None])]
\* await fetch(call.request.clone()): the request goes out, the call suspends.
\* `recorded` notes whether result.networkCalls held the request at that moment.
Fetch(f, request) ==
  [f EXCEPT !.sent = Append(@, [request |-> request,
                                recorded |-> \E i \in DOMAIN f.result.networkCalls :
                                  f.result.networkCalls[i].request = request]),
            !.pc = "fetch"]
\* call.response = <the resolved value of fetch>
AttachResponse(f, i, resp) ==
  [f EXCEPT !.result.networkCalls[i].response = Some(resp)]

(***************************************************************************)
(* getChallenge (lines 130-204), one operator per stretch of code.         *)
(***************************************************************************)
\* GetValidate rejecting only the sequence numbers above 1
GetValidateOffByOne(f, challenge) ==
  IF challenge.type = "FeeBumpTransaction"
  THEN Return(SetFailure(f, makeFailure(
         getChallengeFailureModes.INVALID_TRANSACTION_TYPE, NoArgs)), None)
  ELSE IF challenge.sequence > 1
  THEN Return(SetFailure(f, makeFailure(
         getChallengeFailureModes.NONZERO_SEQUENCE_NUMBER, NoArgs)), None)
  ELSE Return(f, Some(challenge))

\* GetValidate without the `return` of line 201
GetValidateNoReturn(f, challenge) ==
  IF challenge.type = "FeeBumpTransaction"
  THEN Return(SetFailure(f, makeFailure(
         getChallengeFailureModes.INVALID_TRANSACTION_TYPE, NoArgs)), None)
  ELSE IF challenge.sequence # 0
  THEN Return(SetFailure(f, makeFailure(
         getChallengeFailureModes.NONZERO_SEQUENCE_NUMBER, NoArgs)), Some(challenge))
  ELSE Return(f, Some(challenge))

\* lines 192-203: the type and the sequence number of the decoded challenge
GetValidate(f, challenge) ==
  IF challenge.type = "FeeBumpTransaction"
  THEN Return(SetFailure(f, makeFailure(
         getChallengeFailureModes.INVALID_TRANSACTION_TYPE, NoArgs)), None)
  ELSE IF challenge.sequence # 0
  THEN Return(SetFailure(f, makeFailure(
         getChallengeFailureModes.NONZERO_SEQUENCE_NUMBER, NoArgs)), None)
  ELSE Return(f, Some(challenge))

\* lines 176-191: decode the `transaction` attribute
GetDecode(f, toml, transaction) ==
  LET d == fromXDR(transaction, toml.NETWORK_PASSPHRASE) IN
  IF ~d.ok
  THEN Return(SetFailure(f, makeFailure(
         getChallengeFailureModes.DESERIALIZATION_FAILED,
         [transaction |-> transaction,
          networkPassphrase |-> toml.NETWORK_PASSPHRASE])), None)
  ELSE GetValidate(f, d.tx)

\* !responseBody.transaction: the attribute is missing or the empty string
NoTransaction(body) ==
  body.transaction = None \/ The(body.transaction).wire = "empty"

\* lines 171-175, resumed with the outcome of response.clone().json(): the
\* promise rejects on a body that is not JSON, and reading a property of
\* null throws; neither is caught
GetBody(f, toml, body) ==
  IF body.json = "invalid" THEN Throw(f)
  ELSE IF body.json = "null" THEN Throw(f)
  ELSE IF NoTransaction(body)
  THEN Return(SetFailure(f, makeFailure(
         getChallengeFailureModes.NO_TRANSACTION, NoArgs)), None)
  ELSE GetDecode(f, toml, The(body.transaction))

\* GetCheckContentType without the `return` of line 169
GetCheckContentTypeNoReturn(f, resp) ==
  LET getAuthContentType == resp.contentType IN
  IF FalsyStr(getAuthContentType) \/ getAuthContentType # Some("application/json")
  THEN LET g == SetExpected(SetFailure(f, makeFailure(
                  getChallengeFailureModes.BAD_CONTENT_TYPE, NoArgs)),
                  JsStr("application/json")) IN
       [(IF ~FalsyStr(getAuthContentType)
         THEN SetActual(g, JsStr(The(getAuthContentType))) ELSE g)
        EXCEPT !.pc = "json"]
  ELSE [f EXCEPT !.pc = "json"]

\* lines 164-171: the Content-Type of the response
GetCheckContentType(f, resp) ==
  LET getAuthContentType == resp.contentType IN
  IF FalsyStr(getAuthContentType) \/ getAuthContentType # Some("application/json")
  THEN LET g == SetExpected(SetFailure(f, makeFailure(
                  getChallengeFailureModes.BAD_CONTENT_TYPE, NoArgs)),
                  JsStr("application/json")) IN
       Return(IF ~FalsyStr(getAuthContentType)
              THEN SetActual(g, JsStr(The(getAuthContentType))) ELSE g, None)
  ELSE [f EXCEPT !.pc = "json"]

\* GetCheckStatus without the `return` of line 162
GetCheckStatusNoReturn(f, resp) ==
  GetCheckContentType(
    IF resp.status # 200
    THEN SetActual(SetExpected(SetFailure(f, makeFailure(
           getChallengeFailureModes.UNEXPECTED_STATUS_CODE, NoArgs)),
           JsNum(200)), JsNum(resp.status))
    ELSE f, resp)

\* GetCheckStatus with the Content-Type looked at before the status
GetCheckStatusAfterContentType(f, resp) ==
  IF FalsyStr(resp.contentType) \/ resp.contentType # Some("application/json")
  THEN GetCheckContentType(f, resp)
  ELSE IF resp.status # 200
  THEN Return(SetActual(SetExpected(SetFailure(f, makeFailure(
         getChallengeFailureModes.UNEXPECTED_STATUS_CODE, NoArgs)),
         JsNum(200)), JsNum(resp.status)), None)
  ELSE GetCheckContentType(f, resp)

\* lines 156-163: the status of the response
GetCheckStatus(f, resp) ==
  IF resp.status # 200
  THEN Return(SetActual(SetExpected(SetFailure(f, makeFailure(
         getChallengeFailureModes.UNEXPECTED_STATUS_CODE, NoArgs)),
         JsNum(200)), JsNum(resp.status)), None)
  ELSE GetCheckContentType(f, resp)

\* lines 148-171, resumed with the outcome of fetch: None when it rejected
GetFetched(f, i, outcome) ==
  IF outcome = None
  THEN Return(SetFailure(f, makeFailure(
         getChallengeFailureModes.CONNECTION_ERROR,
         [url |-> f.result.networkCalls[i].request.url])), None)
  ELSE LET g == AttachResponse(f, i, The(outcome)) IN
       GetCheckStatus(g, The(outcome))

\* the GET request of lines 143-145
GetRequest(keypair, toml) ==
  [method |-> "GET",
   url |-> The(toml.WEB_AUTH_ENDPOINT) \o "?account=" \o keypair,
   contentType |-> None, encoding |-> "none", transaction |-> None]

\* GetStart testing WEB_AUTH_ENDPOINT against undefined only, not for falsiness
GetStartUndefinedOnly(f, keypair, tomlObj) ==
  IF tomlObj = None
  THEN Return(SetFailure(f, makeFailure(
         getChallengeFailureModes.NO_TOML, NoArgs)), None)
  ELSE IF The(tomlObj).WEB_AUTH_ENDPOINT = None
  THEN Return(SetFailure(f, makeFailure(
         getChallengeFailureModes.NO_WEB_AUTH_ENDPOINT, NoArgs)), None)
  ELSE LET request == GetRequest(keypair, The(tomlObj)) IN
       Fetch(PushCall(f, request), request)

\* GetStart sending the request before it records it
GetStartFetchFirst(f, keypair, tomlObj) ==
  IF tomlObj = None
  THEN Return(SetFailure(f, makeFailure(
         getChallengeFailureModes.NO_TOML, NoArgs)), None)
  ELSE IF FalsyStr(The(tomlObj).WEB_AUTH_ENDPOINT)
  THEN Return(SetFailure(f, makeFailure(
         getChallengeFailureModes.NO_WEB_AUTH_ENDPOINT, NoArgs)), None)
  ELSE LET request == GetRequest(keypair, The(tomlObj)) IN
       PushCall(Fetch(f, request), request)

\* lines 135-149: the metadata checks, then the request is recorded and sent
GetStart(f, keypair, tomlObj) ==
  IF tomlObj = None
  THEN Return(SetFailure(f, makeFailure(
         getChallengeFailureModes.NO_TOML, NoArgs)), None)
  ELSE IF FalsyStr(The(tomlObj).WEB_AUTH_ENDPOINT)
  THEN Return(SetFailure(f, makeFailure(
         getChallengeFailureModes.NO_WEB_AUTH_ENDPOINT, NoArgs)), None)
  ELSE LET request == GetRequest(keypair, The(tomlObj)) IN
       Fetch(PushCall(f, request), request)

(***************************************************************************)
(* postChallenge (lines 206-292).                                          *)
(***************************************************************************)
\* PostCheckSub returning the decoded contents in place of the token
PostCheckSubReturnsContents(f, token, jwtContents) ==
  IF ~fromPublicKey(jwtContents.sub)
  THEN Return(SetFailure(f, makeFailure(
         postChallengeFailureModes.INVALID_JWT_SUB, NoArgs)), None)
  ELSE Return(f, Some(jwtContents))

\* lines 285-291: the `sub` of the token
PostCheckSub(f, token, jwtContents) ==
  IF ~fromPublicKey(jwtContents.sub)
  THEN Return(SetFailure(f, makeFailure(
         postChallengeFailureModes.INVALID_JWT_SUB, NoArgs)), None)
  ELSE Return(f, Some(token))

\* PostCheckSchema with the sub parsed before the schema is validated
PostCheckSubBeforeSchema(f, token, jwtContents) ==
  LET errors == validate(jwtContents) IN
  IF ~fromPublicKey(jwtContents.sub)
  THEN Return(SetFailure(f, makeFailure(
         postChallengeFailureModes.INVALID_JWT_SUB, NoArgs)), None)
  ELSE IF Len(errors) # 0
  THEN Return(SetFailure(f, makeFailure(
         postChallengeFailureModes.INVALID_JWT_SCHEMA, [errors |-> errors])), None)
  ELSE Return(f, Some(token))

\* lines 278-284: the schema of the token's contents
PostCheckSchema(f, token, jwtContents) ==
  LET errors == validate(jwtContents) IN
  IF Len(errors) # 0
  THEN Return(SetFailure(f, makeFailure(
         postChallengeFailureModes.INVALID_JWT_SCHEMA, [errors |-> errors])), None)
  ELSE PostCheckSub(f, token, jwtContents)

\* lines 265-277: decode the token
PostDecode(f, token) ==
  LET d == decode(token) IN
  IF d.outcome = "throw"
  THEN Return(SetFailure(f, makeFailure(
         postChallengeFailureModes.JWT_DECODE_FAILURE,
         [error |-> "invalid token"])), None)
  ELSE IF d.outcome # "object"
  THEN Return(SetFailure(f, makeFailure(
         postChallengeFailureModes.JWT_NOT_JSON, NoArgs)), None)
  ELSE PostCheckSchema(f, token, d.payload)

\* !responseBody.token: the attribute is missing or the empty string
NoToken(body) == body.token = None \/ The(body.token).jws = "empty"

\* lines 260-264, resumed with the outcome of response.clone().json()
PostBody(f, body) ==
  IF body.json = "invalid" THEN Throw(f)
  ELSE IF body.json = "null" THEN Throw(f)
  ELSE IF NoToken(body)
  THEN Return(SetFailure(f, makeFailure(
         postChallengeFailureModes.NO_TOKEN, NoArgs)), None)
  ELSE PostDecode(f, The(body.token))

\* PostCheckContentType with expected and actual swapped
PostCheckContentTypeSwapped(f, resp) ==
  LET postAuthResponseContentType == resp.contentType IN
  IF FalsyStr(postAuthResponseContentType)
     \/ postAuthResponseContentType # Some("application/json")
  THEN LET g == SetActual(SetFailure(f, makeFailure(
                  postChallengeFailureModes.BAD_CONTENT_TYPE, NoArgs)),
                  JsStr("application/json")) IN
       Return(IF ~FalsyStr(postAuthResponseContentType)
              THEN SetExpected(g, JsStr(The(postAuthResponseContentType))) ELSE g,
              None)
  ELSE [f EXCEPT !.pc = "json"]

\* lines 247-260: the Content-Type of the response
PostCheckContentType(f, resp) ==
  LET postAuthResponseContentType == resp.contentType IN
  IF FalsyStr(postAuthResponseContentType)
     \/ postAuthResponseContentType # Some("application/json")
  THEN LET g == SetExpected(SetFailure(f, makeFailure(
                  postChallengeFailureModes.BAD_CONTENT_TYPE, NoArgs)),
                  JsStr("application/json")) IN
       Return(IF ~FalsyStr(postAuthResponseContentType)
              THEN SetActual(g, JsStr(The(postAuthResponseContentType))) ELSE g,
              None)
  ELSE [f EXCEPT !.pc = "json"]

\* PostCheckStatus accepting every 2xx status
PostCheckStatusAny2xx(f, resp) ==
  IF resp.status < 200 \/ resp.status > 299
  THEN Return(SetActual(SetExpected(SetFailure(f, makeFailure(
         postChallengeFailureModes.UNEXPECTED_STATUS_CODE, NoArgs)),
         JsNum(200)), JsNum(resp.status)), None)
  ELSE PostCheckContentType(f, resp)

\* lines 239-246: the status of the response
PostCheckStatus(f, resp) ==
  IF resp.status # 200
  THEN Return(SetActual(SetExpected(SetFailure(f, makeFailure(
         postChallengeFailureModes.UNEXPECTED_STATUS_CODE, NoArgs)),
         JsNum(200)), JsNum(resp.status)), None)
  ELSE PostCheckContentType(f, resp)

\* lines 231-260, resumed with the outcome of fetch: None when it rejected
PostFetched(f, i, outcome) ==
  IF outcome = None
  THEN Return(SetFailure(f, makeFailure(
         postChallengeFailureModes.CONNECTION_ERROR,
         [url |-> f.result.networkCalls[i].request.url])), None)
  ELSE LET g == AttachResponse(f, i, The(outcome)) IN
       PostCheckStatus(g, The(outcome))

\* UseJsonDefault with the default true
UseJsonDefaultTrue(useJson) == IF useJson = None THEN TRUE ELSE The(useJson)

\* useJson: boolean = false
UseJsonDefault(useJson) == IF useJson = None THEN FALSE ELSE The(useJson)

\* PostRequest whose JSON body misses the transaction
PostRequestJsonNoTransaction(toml, challenge, useJson) ==
  IF UseJsonDefault(useJson)
  THEN [method |-> "POST", url |-> The(toml.WEB_AUTH_ENDPOINT),
        contentType |-> Some("application/json"), encoding |-> "json",
        transaction |-> None]
  ELSE [method |-> "POST", url |-> The(toml.WEB_AUTH_ENDPOINT),
        contentType |-> Some("application/x-www-form-urlencoded"),
        encoding |-> "form", transaction |-> Some(toXDR(challenge))]

\* the POST request of lines 215-228
PostRequest(toml, challenge, useJson) ==
  IF UseJsonDefault(useJson)
  THEN [method |-> "POST", url |-> The(toml.WEB_AUTH_ENDPOINT),
        contentType |-> Some("application/json"), encoding |-> "json",
        transaction |-> Some(toXDR(challenge))]
  ELSE [method |-> "POST", url |-> The(toml.WEB_AUTH_ENDPOINT),
        contentType |-> Some("application/x-www-form-urlencoded"),
        encoding |-> "form", transaction |-> Some(toXDR(challenge))]

\* lines 212-232, resumed when getChallenge settled: g is its frame.  A
\* rejection of getChallenge is rethrown by the await.
PostAfterGet(f, g, keypair, tomlObj, useJson) ==
  IF g.pc = "thrown" THEN Throw(f)
  ELSE IF g.ret = None THEN Return(f, None)
  ELSE LET signed == sign(The(g.ret), keypair)
           request == PostRequest(The(tomlObj), signed, useJson) IN
       [Fetch(PushCall(f, request), request) EXCEPT !.challenge = Some(signed)]

(***************************************************************************)
(* The state of one run.                                                   *)
(***************************************************************************)
VARIABLES
  op,            \* the operation the caller invoked
  clientKeypair, \* the public key of the keypair handed in
  tomlObj,       \* the service metadata handed in
  useJson,       \* the fourth argument of postChallenge, None when omitted
  result,        \* the Result handed in, fresh
  failureLog,    \* the names of the failures assigned to result.failure, in order
  sent,          \* the requests handed to fetch, in order
  pc,            \* where getChallenge stands
  challenge,     \* the transaction getChallenge returned, signed in place later
  ppc,           \* where postChallenge stands ("none": it was not invoked)
  token          \* the value postChallenge returned

vars == <<op, clientKeypair, tomlObj, useJson, result, failureLog, sent, pc,
          challenge, ppc, token>>
inputs == <<op, clientKeypair, tomlObj, useJson>>

GetFrame ==
  [result |-> result, log |-> failureLog, sent |-> sent, pc |-> pc,
   ret |-> challenge]
PostFrame ==
  [result |-> result, log |-> failureLog, sent |-> sent, pc |-> ppc,
   ret |-> token, challenge |-> challenge]

\* the variables getChallenge writes
SetGet(f) ==
  /\ result' = f.result
  /\ failureLog' = f.log
  /\ sent' = f.sent
  /\ pc' = f.pc
  /\ challenge' = f.ret

\* the variables postChallenge writes
SetPost(f) ==
  /\ result' = f.result
  /\ failureLog' = f.log
  /\ sent' = f.sent
  /\ ppc' = f.pc
  /\ token' = f.ret
  /\ challenge' = f.challenge

Init ==
  /\ op \in {"getChallenge", "postChallenge"}
  /\ clientKeypair \in ValidPublicKeys
  /\ tomlObj \in TomlObjects
  /\ useJson \in IF op = "postChallenge" THEN {None, Some(FALSE), Some(TRUE)}
                 ELSE {None}
  /\ result = FreshResult
  /\ failureLog = <<>>
  /\ sent = <<>>
  /\ pc = "start"
  /\ challenge = None
  /\ ppc = IF op = "postChallenge" THEN "start" ELSE "none"
  /\ token = None

\* the caller invokes getChallenge(clientKeypair, tomlObj, result)
CallGetChallenge ==
  /\ op = "getChallenge" /\ pc = "start"
  /\ SetGet(GetStart(GetFrame, clientKeypair, tomlObj))
  /\ UNCHANGED <<inputs, ppc, token>>

\* the caller invokes postChallenge, which invokes getChallenge (line 212)
\* and awaits it
CallPostChallenge ==
  /\ op = "postChallenge" /\ ppc = "start"
  /\ SetGet(GetStart(GetFrame, clientKeypair, tomlObj))
  /\ ppc' = "await"
  /\ UNCHANGED <<inputs, token>>

\* the GET's fetch settles: the transport failed, or the endpoint answered
GetFetchDone ==
  /\ pc = "fetch"
  /\ \E outcome \in {None} \cup {Some(r) : r \in GetResponses} :
       SetGet(GetFetched(GetFrame, Len(result.networkCalls), outcome))
  /\ UNCHANGED <<inputs, ppc, token>>

\* the GET response's json() settles
GetJsonDone ==
  /\ pc = "json"
  /\ SetGet(GetBody(GetFrame, The(tomlObj),
                    The(result.networkCalls[Len(result.networkCalls)].response).body))
  /\ UNCHANGED <<inputs, ppc, token>>

\* getChallenge settled and postChallenge resumes after line 212
PostResume ==
  /\ ppc = "await" /\ pc \in {"returned", "thrown"}
  /\ SetPost(PostAfterGet(PostFrame, GetFrame, clientKeypair, tomlObj, useJson))
  /\ UNCHANGED <<inputs, pc>>

\* the POST's fetch settles
PostFetchDone ==
  /\ ppc = "fetch"
  /\ \E outcome \in {None} \cup {Some(r) : r \in PostResponses} :
       SetPost(PostFetched(PostFrame, Len(result.networkCalls), outcome))
  /\ UNCHANGED <<inputs, pc>>

\* the POST response's json() settles
PostJsonDone ==
  /\ ppc = "json"
  /\ SetPost(PostBody(PostFrame,
                      The(result.networkCalls[Len(result.networkCalls)].response).body))
  /\ UNCHANGED <<inputs, pc>>

Next ==
  \/ CallGetChallenge
  \/ CallPostChallenge
  \/ GetFetchDone
  \/ GetJsonDone
  \/ PostResume
  \/ PostFetchDone
  \/ PostJsonDone

Spec == Init /\ [][Next]_vars

(***************************************************************************)
(* Vocabulary of the properties.                                           *)
(***************************************************************************)
\* the invoked operation settled: it returned or it threw
Returned == IF op = "getChallenge" THEN pc = "returned" ELSE ppc = "returned"
Thrown == IF op = "getChallenge" THEN pc = "thrown" ELSE ppc = "thrown"
Finished == Returned \/ Thrown
\* what the invoked operation returned
ReturnValue == IF op = "getChallenge" THEN challenge ELSE token
FailureName == IF result.failure = None THEN "" ELSE The(result.failure).name

TypeOK ==
  /\ pc \in {"start", "fetch", "json", "returned", "thrown"}
  /\ ppc \in {"none", "start", "await", "fetch", "json", "returned", "thrown"}
  /\ Len(result.networkCalls) <= 2
  /\ Len(sent) = Len(result.networkCalls)

(***************************************************************************)
(* Properties.                                                             *)
(***************************************************************************)
Calls == result.networkCalls
HasResponse(i) == Calls[i].response # None

\* result.failure holds the one failure that was assigned, if any
FailureWrittenAtMostOnce ==
  /\ Len(failureLog) <= 1
  /\ result.failure = None <=> failureLog = <<>>
  /\ result.failure # None => failureLog = <<The(result.failure).name>>
  /\ (Returned /\ ReturnValue = None) => Len(failureLog) = 1

\* a step taken with result.failure set leaves the Result alone and sends nothing
FailureIsFinal ==
  result.failure # None =>
    /\ result' = result
    /\ failureLog' = failureLog
    /\ sent' = sent

\* C1: on every failure path of getChallenge and postChallenge result.failure
\* is assigned exactly once and never overwritten afterwards, and from the
\* failure on no network call is recorded or sent.
C1_FailureSetOnceAndFinal == []FailureWrittenAtMostOnce /\ [][FailureIsFinal]_vars

\* C1 witness: postChallenge ended on a failure of its POST phase
C1_Witness ==
  /\ op = "postChallenge" /\ ppc = "returned"
  /\ result.failure # None /\ Len(Calls) = 2

\* C2: whenever postChallenge returns a token, result.networkCalls holds
\* exactly two entries, the GET request first and the POST request second,
\* each with its response, and result.failure is unset.
C2_SuccessRecordsGetThenPost ==
  (op = "postChallenge" /\ ppc = "returned" /\ token # None) =>
    /\ Len(Calls) = 2
    /\ Calls[1].request = GetRequest(clientKeypair, The(tomlObj))
    /\ Calls[1].request.method = "GET"
    /\ Calls[2].request.method = "POST"
    /\ HasResponse(1) /\ HasResponse(2)
    /\ result.failure = None

\* C2 witness: postChallenge returned a token
C2_Witness == op = "postChallenge" /\ ppc = "returned" /\ token # None

\* C3: no exception crosses the boundary of getChallenge or postChallenge,
\* whatever the endpoint answers: neither operation ever ends by throwing.
C3_NeverThrows == pc # "thrown" /\ ppc # "thrown"

\* C4: when the invoked operation has finished, it yielded nothing if and
\* only if result.failure is set.
C4_NothingIffFailure == Finished => (ReturnValue = None <=> result.failure # None)

\* the checks of getChallenge in the order of the claim, each with whether
\* the run's inputs violate it; r is the GET's response, None without one
GetViolations(toml, r) ==
  LET answered == r # None
      body == IF answered THEN The(r).body ELSE NoBody
      hasTx == ~NoTransaction(body)
      w == IF hasTx THEN The(body.transaction).wire ELSE "empty"
      seq == IF hasTx THEN The(body.transaction).seq ELSE 0
  IN << <<"no TOML file", toml = None>>,
        <<"no WEB_AUTH_ENDPOINT",
          toml = None \/ FalsyStr(The(toml).WEB_AUTH_ENDPOINT)>>,
        <<"connection error", ~answered>>,
        <<"unexpected status code", answered /\ The(r).status # 200>>,
        <<"bad content type",
          answered /\ The(r).contentType # Some("application/json")>>,
        <<"missing 'transaction' field", ~hasTx>>,
        <<"transaction deserialization failed", w \notin {"tx", "feebump"}>>,
        <<"invalid transaction type", w = "feebump">>,
        <<"non-zero sequence number", seq # 0>> >>

\* the name of the earliest violated check, "" when none is violated
FirstViolated(v) ==
  IF \E i \in DOMAIN v : v[i][2]
  THEN v[CHOOSE i \in DOMAIN v : v[i][2] /\ \A j \in 1 .. (i - 1) : ~v[j][2]][1]
  ELSE ""

GetResponse == IF Calls = <<>> THEN None ELSE Calls[1].response

\* C5: getChallenge records the failure of the earliest violated check in the
\* order NO_TOML, NO_WEB_AUTH_ENDPOINT, CONNECTION_ERROR, UNEXPECTED_STATUS_CODE,
\* BAD_CONTENT_TYPE, NO_TRANSACTION, DESERIALIZATION_FAILED,
\* INVALID_TRANSACTION_TYPE, NONZERO_SEQUENCE_NUMBER, and the nine failure
\* kinds are distinct.
C5_EarliestViolatedCheckWins ==
  /\ Cardinality({getChallengeFailureModes[k].name :
                    k \in DOMAIN getChallengeFailureModes}) = 9
  /\ (pc = "returned" /\ ppc \in {"none", "await"}) =>
       /\ FailureName = FirstViolated(GetViolations(tomlObj, GetResponse))
       /\ FailureName = "" <=> challenge # None

\* C5 witness: status and Content-Type are both wrong and getChallenge has
\* returned
C5_Witness ==
  /\ pc = "returned" /\ ppc \in {"none", "await"}
  /\ GetResponse # None
  /\ The(GetResponse).status = 404
  /\ The(GetResponse).contentType = Some("text/html")

\* C6: postChallenge returns a token only when the token's sub is the public
\* key of clientKeypair.
C6_TokenSubIsClientKey ==
  (op = "postChallenge" /\ ppc = "returned" /\ token # None) =>
    The(token).payload.sub = [t |-> "string", s |-> clientKeypair]

\* the calls recorded by getChallenge
GetCalls == {i \in DOMAIN Calls : Calls[i].request.method = "GET"}
\* getChallenge has returned and postChallenge, if it runs, has not resumed
GetReturned == pc = "returned" /\ ppc \in {"none", "await"}

\* C7 as stated: every invocation of getChallenge records exactly one network
\* call, sets result.failure exactly once if a check fails and never on success.
C7_ExactlyOneCallRecorded ==
  GetReturned =>
    /\ Len(Calls) = 1
    /\ challenge = None => Len(failureLog) = 1
    /\ challenge # None => failureLog = <<>>

\* C7 amended: getChallenge records at most one network call: none when it
\* fails with NO_TOML or NO_WEB_AUTH_ENDPOINT, exactly one in every other case;
\* result.failure is set exactly once when it returns nothing and is unset when
\* it returns a challenge.
C7_OneCallUnlessNoEndpoint ==
  /\ Cardinality(GetCalls) <= 1
  /\ pc # "start" =>
       Cardinality(GetCalls) =
         IF failureLog # <<>>
            /\ failureLog[1] \in {"no TOML file", "no WEB_AUTH_ENDPOINT"}
         THEN 0 ELSE 1
  /\ GetReturned =>
       /\ challenge = None => Len(failureLog) = 1 /\ result.failure # None
       /\ challenge # None => failureLog = <<>> /\ result.failure = None

\* C7 witness: getChallenge returned without having recorded a call
C7_Witness == op = "getChallenge" /\ pc = "returned" /\ Calls = <<>>

\* C8: without metadata, or with WEB_AUTH_ENDPOINT absent or empty, the run
\* fails with NO_TOML respectively NO_WEB_AUTH_ENDPOINT, and no request is
\* recorded or sent.
C8_NoEndpointNoRequest ==
  (pc # "start" /\ (tomlObj = None \/ FalsyStr(The(tomlObj).WEB_AUTH_ENDPOINT))) =>
    /\ FailureName = IF tomlObj = None THEN "no TOML file"
                     ELSE "no WEB_AUTH_ENDPOINT"
    /\ Calls = <<>>
    /\ sent = <<>>
    /\ pc = "returned" /\ challenge = None
    /\ Finished => Returned /\ ReturnValue = None

\* C8 witness: postChallenge finished on metadata with an empty WEB_AUTH_ENDPOINT
C8_Witness ==
  /\ op = "postChallenge" /\ Finished
  /\ tomlObj # None /\ The(tomlObj).WEB_AUTH_ENDPOINT = Some("")

\* C9: every request is in result.networkCalls when it is sent; a call misses
\* its response exactly while it is in flight or when the transport failed,
\* which is recorded as CONNECTION_ERROR with the failed request last; every
\* other call of a finished run has its response.
C9_RecordedBeforeSent ==
  /\ Len(sent) = Len(Calls)
  /\ \A i \in DOMAIN sent : sent[i].recorded /\ sent[i].request = Calls[i].request
  /\ \A i \in 1 .. (Len(Calls) - 1) : HasResponse(i)
  /\ (pc = "fetch" \/ ppc = "fetch") => ~HasResponse(Len(Calls))
  /\ FailureName = "connection error" =>
       Calls # <<>> /\ ~HasResponse(Len(Calls))
  /\ (Finished /\ FailureName # "connection error") =>
       \A i \in DOMAIN Calls : HasResponse(i)

\* C9 witness: the transport failed on the POST and the run has finished
C9_Witness ==
  /\ Finished /\ FailureName = "connection error"
  /\ Len(Calls) = 2 /\ ~HasResponse(2)

\* C10: a response, to the GET or to the POST, with a status s other than 200
\* fails the run with UNEXPECTED_STATUS_CODE, expected 200 and actual s; a
\* status of 200 never does.
C10_StatusOtherThan200 ==
  /\ \A i \in DOMAIN Calls :
       (HasResponse(i) /\ The(Calls[i].response).status # 200) =>
         /\ FailureName = "unexpected status code"
         /\ result.expected = Some(JsNum(200))
         /\ result.actual = Some(JsNum(The(Calls[i].response).status))
  /\ FailureName = "unexpected status code" =>
       /\ Calls # <<>> /\ HasResponse(Len(Calls))
       /\ The(Calls[Len(Calls)].response).status # 200

\* C10 witness: the POST was answered with 404
C10_Witness ==
  /\ Len(Calls) = 2 /\ HasResponse(2)
  /\ The(Calls[2].response).status = 404
  /\ Finished

\* the response of the last recorded call, None without one
LastResponse == IF Calls = <<>> THEN None ELSE Calls[Len(Calls)].response
\* the Content-Type header of the last response, None when it has none
LastContentType ==
  IF LastResponse = None THEN None ELSE The(LastResponse).contentType

\* expected and actual are unset unless the failure is one of the two mismatches
DiagnosticsOnlyForMismatch ==
  /\ FailureName \notin {"unexpected status code", "bad content type"} =>
       result.expected = None /\ result.actual = None
  /\ FailureName = "unexpected status code" =>
       result.expected # None /\ result.actual # None
  /\ FailureName = "bad content type" =>
       result.expected = Some(JsStr("application/json"))

\* C11 as stated: expected and actual are populated only for
\* UNEXPECTED_STATUS_CODE and BAD_CONTENT_TYPE; for BAD_CONTENT_TYPE expected is
\* 'application/json' and actual is the observed header value, unset when the
\* header is absent.
C11_ActualIsObservedHeader ==
  /\ DiagnosticsOnlyForMismatch
  /\ FailureName = "bad content type" =>
       result.actual = IF LastContentType = None THEN None
                       ELSE Some(JsStr(The(LastContentType)))

\* C11 amended: as stated, but for BAD_CONTENT_TYPE actual is left unset when
\* the Content-Type header is absent or empty.
C11_ActualUnsetForEmptyHeader ==
  /\ DiagnosticsOnlyForMismatch
  /\ FailureName = "bad content type" =>
       result.actual = IF LastContentType = None \/ LastContentType = Some("")
                       THEN None
                       ELSE Some(JsStr(The(LastContentType)))

\* C11 witness: the POST was answered 200 with an empty Content-Type header
C11_Witness ==
  /\ Finished /\ Len(Calls) = 2 /\ FailureName = "bad content type"
  /\ LastContentType = Some("")

\* the GET was answered 200 with Content-Type application/json and a body
\* whose `transaction` is the envelope of a transaction
ChallengeDecoded ==
  /\ GetResponse # None
  /\ The(GetResponse).status = 200
  /\ The(GetResponse).contentType = Some("application/json")
  /\ The(GetResponse).body.json = "object"
  /\ ~NoTransaction(The(GetResponse).body)
  /\ The(The(GetResponse).body.transaction).wire \in {"tx", "feebump"}
\* that envelope
SentChallenge == The(The(GetResponse).body.transaction)

\* C12: getChallenge accepts a decoded challenge only if it is an ordinary
\* transaction with sequence number 0: sequence 0 passes, every other sequence
\* fails with NONZERO_SEQUENCE_NUMBER, and a fee-bump transaction fails with
\* INVALID_TRANSACTION_TYPE whatever its sequence.
C12_OnlyZeroSequenceAccepted ==
  /\ (pc = "returned" /\ ChallengeDecoded) =>
       /\ SentChallenge.wire = "feebump" =>
            challenge = None /\ FailureName = "invalid transaction type"
       /\ (SentChallenge.wire = "tx" /\ SentChallenge.seq # 0) =>
            challenge = None /\ FailureName = "non-zero sequence number"
       /\ (SentChallenge.wire = "tx" /\ SentChallenge.seq = 0) =>
            /\ challenge # None
            /\ failureLog = <<>> \/ Len(Calls) = 2
  /\ challenge # None =>
       /\ ChallengeDecoded
       /\ The(challenge).type = "Transaction"
       /\ The(challenge).sequence = 0

\* C12 witness: getChallenge returned on a challenge with sequence number 1
C12_Witness ==
  /\ pc = "returned" /\ ChallengeDecoded
  /\ SentChallenge.wire = "tx" /\ SentChallenge.seq = 1

\* the calls recorded by postChallenge itself
PostCalls == {i \in DOMAIN Calls : Calls[i].request.method = "POST"}
\* the signatures of sigs made with the client's keypair
ClientSignatures(sigs) == {i \in DOMAIN sigs : sigs[i] = clientKeypair}

\* C13: a run adds at most one signature to the challenge, and only after the
\* GET phase accepted it; no request is retried: at most one GET and at most
\* one POST are issued, so result.networkCalls never holds more than two
\* entries, also when the POST fails.
C13_OneSignatureNoRetry ==
  /\ Len(Calls) <= 2 /\ Len(sent) <= 2
  /\ Cardinality(GetCalls) <= 1 /\ Cardinality(PostCalls) <= 1
  /\ challenge # None =>
       /\ Cardinality(ClientSignatures(The(challenge).signatures)) <= 1
       /\ Len(The(challenge).signatures) <= Len(SentChallenge.sigs) + 1
       /\ ClientSignatures(The(challenge).signatures) # {} =>
            /\ op = "postChallenge" /\ pc = "returned"
            /\ ppc \in {"fetch", "json", "returned", "thrown"}
            /\ SentChallenge.wire = "tx" /\ SentChallenge.seq = 0
  /\ PostCalls # {} =>
       /\ challenge # None
       /\ The(Calls[2].request.transaction).sigs =
            Append(SentChallenge.sigs, clientKeypair)

\* C13 witness: the POST failed and the run has finished
C13_Witness ==
  /\ Finished /\ Len(Calls) = 2 /\ result.failure # None
  /\ The(result.failure).name = "unexpected status code"

\* C14: the POST request targets exactly the WEB_AUTH_ENDPOINT of the GET,
\* without the account query; it is JSON-encoded with Content-Type
\* application/json when useJson is true and form-encoded with Content-Type
\* application/x-www-form-urlencoded otherwise, also when useJson is omitted;
\* in both modes its single field `transaction` is the envelope of the signed
\* challenge.
C14_PostRequestShape ==
  PostCalls # {} =>
    LET request == Calls[2].request
        endpoint == The(The(tomlObj).WEB_AUTH_ENDPOINT) IN
    /\ request.method = "POST"
    /\ request.url = endpoint
    /\ Calls[1].request.url = endpoint \o "?account=" \o clientKeypair
    /\ useJson = Some(TRUE) =>
         /\ request.contentType = Some("application/json")
         /\ request.encoding = "json"
    /\ useJson \in {None, Some(FALSE)} =>
         /\ request.contentType = Some("application/x-www-form-urlencoded")
         /\ request.encoding = "form"
    /\ request.transaction = Some(toXDR(The(challenge)))
    /\ The(request.transaction) =
         [wire |-> "tx", seq |-> 0, sigs |-> Append(SentChallenge.sigs, clientKeypair)]

\* C14 witness: postChallenge was called without useJson and recorded its POST
C14_Witness == PostCalls # {} /\ useJson = None

\* the response to the POST, None without one
PostResponse == IF Len(Calls) < 2 THEN None ELSE Calls[2].response

\* C15: when postChallenge succeeds, the value it returns is the `token`
\* string of the POST response body, unchanged.
C15_ReturnsTokenUnchanged ==
  (op = "postChallenge" /\ ppc = "returned" /\ token # None) =>
    /\ PostResponse # None
    /\ token = The(PostResponse).body.token

\* C15 witness: postChallenge returned the token of a client whose sub is its key
C15_Witness ==
  /\ op = "postChallenge" /\ ppc = "returned" /\ token # None
  /\ PostResponse # None
  /\ The(The(PostResponse).body.token).payload.sub.s = clientKeypair

\* the checks of the POST phase in the order of the claim, each with whether
\* the POST's outcome violates it; r is the POST's response, None without one
PostViolations(r) ==
  LET answered == r # None
      body == IF answered THEN The(r).body ELSE NoBody
      hasToken == ~NoToken(body)
      jws == IF hasToken THEN The(body.token).jws ELSE "empty"
      payload == IF hasToken THEN The(body.token).payload ELSE NoPayload
  IN << <<"connection error", ~answered>>,
        <<"unexpected status code", answered /\ The(r).status # 200>>,
        <<"bad content type",
          answered /\ The(r).contentType # Some("application/json")>>,
        <<"no token", ~hasToken>>,
        <<"JWT decode failure", jws = "badpayload">>,
        <<"JWT contents is not JSON", jws # "object">>,
        <<"invalid JWT content schema",
          payload.sub.t # "string" \/ ~payload.iat \/ ~payload.exp>>,
        <<"invalid jwt 'sub' attribute",
          ~(payload.sub.t = "string" /\ payload.sub.s \in ValidPublicKeys)>> >>

\* C16: after a successful GET phase postChallenge records the failure of the
\* earliest violated check in the order CONNECTION_ERROR,
\* UNEXPECTED_STATUS_CODE, BAD_CONTENT_TYPE, NO_TOKEN, JWT_DECODE_FAILURE,
\* JWT_NOT_JSON, INVALID_JWT_SCHEMA, INVALID_JWT_SUB; a token is returned
\* exactly when no check is violated.
C16_EarliestViolatedPostCheckWins ==
  (ppc = "returned" /\ PostCalls # {}) =>
    /\ FailureName = FirstViolated(PostViolations(PostResponse))
    /\ FailureName = "" <=> token # None

\* C16 witness: the token's payload violates the schema and has a malformed
\* sub, and postChallenge has returned
C16_Witness ==
  /\ ppc = "returned" /\ PostResponse # None
  /\ The(PostResponse).status = 200
  /\ The(PostResponse).contentType = Some("application/json")
  /\ ~NoToken(The(PostResponse).body)
  /\ The(The(PostResponse).body.token).jws = "object"
  /\ The(The(PostResponse).body.token).payload =
       [sub |-> [t |-> "string", s |-> "malformed"], iat |-> FALSE, exp |-> TRUE]

\* the failures both phases can record
SharedFailureKeys == {"CONNECTION_ERROR", "UNEXPECTED_STATUS_CODE", "BAD_CONTENT_TYPE"}
\* the recorded failure is a transport, status or Content-Type failure of the
\* POST phase
PostPhaseSharedFailure ==
  /\ PostCalls # {}
  /\ result.failure # None
  /\ \E k \in SharedFailureKeys :
       The(result.failure).name = postChallengeFailureModes[k].name

SecondCallBehindAcceptedGet ==
  Len(Calls) >= 2 =>
    /\ HasResponse(1)
    /\ The(Calls[1].response).status = 200
    /\ The(Calls[1].response).contentType = Some("application/json")
    /\ pc = "returned" /\ challenge # None
    /\ SentChallenge.wire = "tx" /\ SentChallenge.seq = 0

\* a step that records a call behind another finds that one answered,
\* getChallenge returned and result.failure unset, and sends the new request
PostIssuedAfterGet ==
  (Len(result'.networkCalls) > Len(Calls) /\ Calls # <<>>) =>
    /\ Len(result'.networkCalls) = Len(Calls) + 1
    /\ \A i \in DOMAIN Calls : HasResponse(i)
    /\ result.failure = None
    /\ pc = "returned" /\ ppc = "await"
    /\ Len(sent') = Len(sent) + 1

\* C18: the two HTTP calls are strictly sequential: the POST is recorded and
\* sent only after the GET completed and passed every check of the GET phase,
\* so wherever result.networkCalls has a second entry the first has a response
\* with status 200 and Content-Type application/json, and result.failure was
\* unset when the POST was issued.
C18_PostOnlyAfterAcceptedGet ==
  []SecondCallBehindAcceptedGet /\ [][PostIssuedAfterGet]_vars

\* C18 witness: the POST is in flight
C18_Witness == Len(Calls) = 2 /\ ppc = "fetch" /\ ~HasResponse(2)

(***************************************************************************)
(* Progress.  Every action is either code that the event loop resumes once *)
(* the promise it awaits has settled, or the settling of an issued network *)
(* call; a call that is issued eventually completes or fails.               *)
(***************************************************************************)
FairSpec == Spec /\ WF_vars(Next)

\* how far the run is: each step of the code moves it forward
Progress ==
  (CASE pc = "start" -> 0 [] pc = "fetch" -> 1 [] pc = "json" -> 2 [] OTHER -> 3)
  + (CASE ppc \in {"none", "start"} -> 0 [] ppc = "await" -> 1 [] ppc = "fetch" -> 2
       [] ppc = "json" -> 3 [] OTHER -> 4)

\* the run ends, and no step leads back
EventuallyFinished == <>Finished /\ [][Progress' > Progress]_vars

\* C19: every run of getChallenge and of postChallenge eventually finishes,
\* with either a returned value or a recorded failure, provided every issued
\* network call eventually completes or fails.
C19_FinishesWithValueOrFailure ==
  <>(Finished /\ (ReturnValue # None \/ result.failure # None))

(***************************************************************************)
(* A whole run of postChallenge as a function of its arguments and of what *)
(* the network does: getOutcome and postOutcome are what the GET's and the *)
(* POST's fetch settle with (None: the transport failed), read only if the *)
(* request is issued.  The result is the frame postChallenge ends with.     *)
(***************************************************************************)
RunPostChallenge(keypair, toml, u, getOutcome, postOutcome) ==
  LET g0 == [result |-> FreshResult, log |-> <<>>, sent |-> <<>>,
             pc |-> "start", ret |-> None]
      g1 == GetStart(g0, keypair, toml)
      g2 == IF g1.pc = "fetch"
            THEN GetFetched(g1, Len(g1.result.networkCalls), getOutcome) ELSE g1
      g3 == IF g2.pc = "json"
            THEN GetBody(g2, The(toml), The(getOutcome).body) ELSE g2
      p0 == [result |-> g3.result, log |-> g3.log, sent |-> g3.sent,
             pc |-> "await", ret |-> None, challenge |-> g3.ret]
      p1 == PostAfterGet(p0, g3, keypair, toml, u)
      p2 == IF p1.pc = "fetch"
            THEN PostFetched(p1, Len(p1.result.networkCalls), postOutcome) ELSE p1
      p3 == IF p2.pc = "json" THEN PostBody(p2, The(postOutcome).body) ELSE p2
  IN p3

\* a request without what the encoding mode decides
WithoutEncoding(request) == [request EXCEPT !.contentType = None, !.encoding = "none"]

\* C20: the encoding mode influences only the body encoding and the
\* Content-Type of the POST request: the run of postChallenge with any other
\* useJson, the same other arguments and the same responses issues the same
\* GET request, records as many calls, posts the same transaction to the same
\* URL, and ends the same way with the same returned value, result.failure,
\* result.expected and result.actual.
C20_EncodingOnlyShapesPostRequest ==
  (op = "postChallenge" /\ Finished) =>
    /\ RunPostChallenge(clientKeypair, tomlObj, useJson, GetResponse,
                        PostResponse).result = result
    /\ \A u \in {None, Some(FALSE), Some(TRUE)} :
         LET other == RunPostChallenge(clientKeypair, tomlObj, u, GetResponse,
                                       PostResponse)
             calls == other.result.networkCalls IN
         /\ other.pc = ppc
         /\ other.ret = token
         /\ other.result.failure = result.failure
         /\ other.result.expected = result.expected
         /\ other.result.actual = result.actual
         /\ Len(calls) = Len(Calls)
         /\ Calls # <<>> => calls[1] = Calls[1]
         /\ Len(Calls) = 2 =>
              /\ WithoutEncoding(calls[2].request) = WithoutEncoding(Calls[2].request)
              /\ calls[2].request.transaction # None
              /\ calls[2].response = Calls[2].response

\* C20 witness: postChallenge, called with useJson true, returned a token
C20_Witness ==
  op = "postChallenge" /\ Finished /\ useJson = Some(TRUE) /\ token # None

====
